---- MODULE Spec2Model ----
(***************************************************************************)
(* A model of Data_scraping/scrape.py: the sequential scraper that fetches *)
(* four report pages of one site, follows their links, saves the binary    *)
(* files, extracts text from the pdf files and logs every step.            *)
(*                                                                         *)
(* Strings are sequences of chunks (TLA+ strings).  Text that comes from a *)
(* page is given one character per chunk, so that strip, replace and the   *)
(* regular expressions of the code work on it as they do in Python; the    *)
(* fixed names of the code are single chunks.  A path is a sequence of     *)
(* segments, each segment a string in this sense.                          *)
(*                                                                         *)
(* Every Python function is an operator from a world (file system,         *)
(* directories, pending exception, clock) to a world.  An exception is the *)
(* field exc of the world: "none" while the call returns normally.         *)
(* requests.get is modelled by the response the server gives; the          *)
(* extraction service (tika) by the result it returns or the failure it    *)
(* raises.                                                                 *)
(***************************************************************************)
EXTENDS Integers, Sequences, FiniteSets, TLC

VARIABLES
    pc,       \* where main() is: the routine or loop about to run
    fs,       \* the files on disk: path -> content
    dirs,     \* the directories on disk
    work,     \* what the current loop still has to iterate over
    ctx,      \* the locals of the routine that the loop reads
    run,      \* how many times the script has been started
    deviations, \* how often the site or the extraction service has
              \* answered otherwise than they normally do
    gets,     \* history: the _get calls of this run, in order
    started,  \* history: the routines main() has called in this run
    orphan,   \* history: paths written while their parent did not exist
    last      \* history: the call made by the last step

vars == <<pc, fs, dirs, work, ctx, run, deviations, gets, started, orphan,
          last>>

----------------------------------------------------------------------------
(* Bounds of the model *)

\* How many times the script is run against the same data directory.
MaxRuns == 2

\* How many times, in all, the site answers a request otherwise than with
\* status 200 and the page or file it normally serves, or the extraction
\* service fails.
MaxDeviations == 2

----------------------------------------------------------------------------
(* Module constants, scrape.py lines 28-49 *)

_BASE_URL == <<"https://www.rrc.state.tx.us">>
_DELAY == 5
_USER_AGENT == "Mozilla/5.0 (X11; Ubuntu; Linux x86_64; rv:78.0) Gecko/20100101 Firefox/78.0"
_DATA_ROOT == <<"data">>
_SAVED_PAGES == <<"saved_pages">>

----------------------------------------------------------------------------
(* str: strip, replace, the regular expressions *)

Whitespace == {" ", "\n", "\t"}
Digits == {"0", "1", "2", "3", "4", "5", "6", "7", "8", "9"}

RECURSIVE lstrip(_)
lstrip(s) ==
    IF s # <<>> /\ Head(s) \in Whitespace THEN lstrip(Tail(s)) ELSE s

RECURSIVE rstrip(_)
rstrip(s) ==
    IF s # <<>> /\ s[Len(s)] \in Whitespace
    THEN rstrip(SubSeq(s, 1, Len(s) - 1))
    ELSE s

\* str.strip()
strip(s) == rstrip(lstrip(s))

\* str.replace(old, new) for a one-character old; new may be empty
replace(s, old, new) ==
    LET RECURSIVE go(_)
        go(t) == IF t = <<>> THEN <<>>
                 ELSE (IF Head(t) = old THEN new ELSE <<Head(t)>>) \o go(Tail(t))
    IN go(s)

\* re.search(r'\d+', s) is not None
has_digits(s) == \E i \in 1..Len(s) : s[i] \in Digits

\* The places where r'(\d{4})\.' matches in s
year_matches(s) ==
    {i \in 1..(Len(s) - 4) :
        /\ \A k \in 0..3 : s[i + k] \in Digits
        /\ s[i + 4] = "."}

Min(S) == CHOOSE m \in S : \A n \in S : m <= n

\* re.search(r'(\d{4})\.', s).group(1), the leftmost match
year_group(s) == SubSeq(s, Min(year_matches(s)), Min(year_matches(s)) + 3)

----------------------------------------------------------------------------
(* pathlib.Path *)

\* Path(a) / b, for a relative b
join(a, b) == a \o b

\* path.parent (path.parents[0])
parent_of(path) == SubSeq(path, 1, Len(path) - 1)

\* path.name
name_of(path) == path[Len(path)]

\* The last "." of a name, 0 when it has none
last_dot(name) ==
    LET dots == {i \in 1..Len(name) : name[i] = "."}
    IN IF dots = {} THEN 0 ELSE CHOOSE m \in dots : \A n \in dots : n <= m

\* path.suffix: from the last dot, unless the dot starts or ends the name
suffix_of(path) ==
    LET name == name_of(path)
        i == last_dot(name)
    IN IF 1 < i /\ i < Len(name) THEN SubSeq(name, i, Len(name)) ELSE <<>>

\* path.stem: the name without its suffix
stem_of(path) ==
    LET name == name_of(path)
        i == last_dot(name)
    IN IF 1 < i /\ i < Len(name) THEN SubSeq(name, 1, i - 1) ELSE name

\* The directories a mkdir(parents = True) of dir makes or finds
ancestors(dir) == {SubSeq(dir, 1, n) : n \in 0..Len(dir)}

----------------------------------------------------------------------------
(* The world the functions act on *)

log_file == join(_DATA_ROOT, <<<<"scrape.log">>>>)

World == [fs |-> fs, dirs |-> dirs, exc |-> "none", returned |-> FALSE,
          slept |-> <<>>, gets |-> gets, orphan |-> orphan,
          binary |-> <<>>, pdf |-> <<>>, work |-> work, ctx |-> ctx]

Raise(w, e) == [w EXCEPT !.exc = e]

\* An except clause that handles the pending exception
Caught(w) == [w EXCEPT !.exc = "none"]

\* A return statement before the end of the function
Return(w) == [w EXCEPT !.returned = TRUE]

NoBody == [kind |-> "none"]

\* The records the logging handlers have written
log_of(files) ==
    IF log_file \in DOMAIN files THEN files[log_file].records ELSE <<>>

\* The files other than the log
artifacts(files) == [p \in (DOMAIN files) \ {log_file} |-> files[p]]

logging_emit(w, level, event, url, path, body) ==
    [w EXCEPT !.fs[log_file].records =
        Append(@, [level |-> level, event |-> event, url |-> url,
                   path |-> path, body |-> body])]

logging_info(w, event, url, path) ==
    logging_emit(w, "INFO", event, url, path, NoBody)

logging_error(w, event, url, body) ==
    logging_emit(w, "ERROR", event, url, <<>>, body)

\* time.sleep(d)
time_sleep(w, d) == [w EXCEPT !.slept = Append(@, d)]

\* Opening a file for writing and writing it: it fails when the directory
\* of the file does not exist, and replaces the file when the file does.
write_file(w, path, content) ==
    IF parent_of(path) \notin w.dirs
    THEN Raise([w EXCEPT !.orphan = @ \cup {path}], "FileNotFoundError")
    ELSE [w EXCEPT !.fs = (path :> content) @@ @]

\* parent.mkdir(parents = True, exist_ok = True)
mkdir_parents(w, dir) == [w EXCEPT !.dirs = @ \cup ancestors(dir)]

\* _check_parents without the mkdir
_check_parents_no_mkdir(w, file_path) == w

_check_parents(w, file_path) == mkdir_parents(w, parent_of(file_path))

----------------------------------------------------------------------------
(* Functions for fetching and saving data, scrape.py lines 56-119 *)

\* Response.raise_for_status() raises HTTPError for a 4xx or 5xx status
raises_for_status(r) == 400 <= r.status /\ r.status < 600

\* _get that logs nothing when the request fails
_get_silent_failure(w, url, r) ==
    LET w1 == IF raises_for_status(r)
              THEN Raise(w, "HTTPError")
              ELSE time_sleep(
                       logging_info(w, "Successfully downloaded data for",
                                    url, <<>>),
                       _DELAY)
    IN [w1 EXCEPT !.gets =
           Append(@, [url |-> url, status |-> r.status, body |-> r.body,
                      exc |-> w1.exc,
                      headers |-> [user_agent |-> _USER_AGENT],
                      pauses |-> SubSeq(w1.slept, Len(w.slept) + 1,
                                        Len(w1.slept))])]

\* _get(url), where r is the response requests.get obtains.  The call is
\* added to the history gets with the exception it ends in and the pauses
\* it made.
_get(w, url, r) ==
    LET headers == [user_agent |-> _USER_AGENT]
        w1 == IF raises_for_status(r)
              THEN Raise(logging_error(w, "Failed to download", url, r.body),
                         "HTTPError")
              ELSE time_sleep(
                       logging_info(w, "Successfully downloaded data for",
                                    url, <<>>),
                       _DELAY)
    IN [w1 EXCEPT !.gets =
           Append(@, [url |-> url, status |-> r.status, body |-> r.body,
                      exc |-> w1.exc, headers |-> headers,
                      pauses |-> SubSeq(w1.slept, Len(w.slept) + 1,
                                        Len(w1.slept))])]

\* get_html_string(url): the text of the response, or the exception of _get
get_html_string(w, url, r) == _get(w, url, r)

\* What parse_pdf writes for a parsed file: the pretty-printed metadata
\* and the content as it is
metadata_text(parsed) == [kind |-> "pprint", of |-> parsed.metadata]
content_text(parsed) == [kind |-> "text", text |-> parsed.content[1]]

\* parse_pdf that names the content file as its docstring does,
\* <stem>_content.txt
parse_pdf_content_name(w, file_path, parsed) ==
    LET parent == parent_of(file_path)
        metadata_filename == stem_of(file_path) \o <<"_metadata.txt">>
        content_filename == stem_of(file_path) \o <<"_content.txt">>
        parsed_content_path == join(parent, <<content_filename>>)
        w1 == logging_info(
                  [w EXCEPT !.pdf = <<[file_path |-> file_path,
                                       parsed |-> parsed]>>],
                  "Attempting to extract text content from pdf file",
                  <<>>, file_path)
        w2 == write_file(w1, join(parent, <<metadata_filename>>),
                         [kind |-> "pprint", of |-> parsed.metadata])
        w3 == write_file(w2, parsed_content_path,
                         [kind |-> "text", text |-> parsed.content[1]])
    IN IF parsed.raises THEN Raise(w1, "TikaError")
       ELSE IF parsed.content # <<>> /\ parsed.content[1] # <<>>
       THEN IF w2.exc # "none" THEN w2
            ELSE IF w3.exc # "none" THEN w3
            ELSE logging_info(w3, "Saved parsed text to", <<>>,
                              parsed_content_path)
       ELSE logging_info(w1, "No text content found in pdf file", <<>>,
                         file_path)

\* parse_pdf(file_path), where parsed is what parser.from_file does: it
\* raises, or returns a dictionary whose content is None (<<>>) or a string
\* (<<s>>), which may be empty.
parse_pdf(w, file_path, parsed) ==
    LET parent == parent_of(file_path)
        metadata_filename == stem_of(file_path) \o <<"_metadata.txt">>
        content_filename == stem_of(file_path) \o <<"_parsed.txt">>
        parsed_content_path == join(parent, <<content_filename>>)
        w1 == logging_info(
                  [w EXCEPT !.pdf = <<[file_path |-> file_path,
                                       parsed |-> parsed]>>],
                  "Attempting to extract text content from pdf file",
                  <<>>, file_path)
        w2 == write_file(w1, join(parent, <<metadata_filename>>),
                         metadata_text(parsed))
        w3 == write_file(w2, parsed_content_path, content_text(parsed))
    IN IF parsed.raises THEN Raise(w1, "TikaError")
       ELSE IF parsed.content # <<>> /\ parsed.content[1] # <<>>
       THEN IF w2.exc # "none" THEN w2
            ELSE IF w3.exc # "none" THEN w3
            ELSE logging_info(w3, "Saved parsed text to", <<>>,
                              parsed_content_path)
       ELSE logging_info(w1, "No text content found in pdf file", <<>>,
                         file_path)

\* get_binary_file without its except clause: as its docstring says, it
\* raises when the download is unsuccessful
get_binary_file_raising(w, url, relative_path, r, parsed) ==
    LET w0 == [w EXCEPT !.binary = <<[url |-> url,
                                      relative_path |-> relative_path,
                                      r |-> r]>>]
        w1 == _get(w0, url, r)
        file_path == join(_DATA_ROOT, relative_path)
        w2 == write_file(_check_parents(w1, file_path), file_path, r.body)
        w3 == logging_info(w2, "Saved binary data to", <<>>, file_path)
    IN IF w1.exc # "none" THEN w1
       ELSE IF w2.exc # "none" THEN w2
       ELSE IF suffix_of(file_path) = <<".", "p", "d", "f">>
       THEN parse_pdf(w3, file_path, parsed)
       ELSE w3

\* get_binary_file that keeps a file it finds and saves the download
\* beside it, as <stem>_new<suffix>
get_binary_file_versioned(w, url, relative_path, r, parsed) ==
    LET w0 == [w EXCEPT !.binary = <<[url |-> url,
                                      relative_path |-> relative_path,
                                      r |-> r]>>]
        w1 == _get(w0, url, r)
        given_path == join(_DATA_ROOT, relative_path)
        file_path ==
            IF given_path \in DOMAIN w.fs
            THEN join(parent_of(given_path),
                      <<stem_of(given_path) \o <<"_new">>
                            \o suffix_of(given_path)>>)
            ELSE given_path
        w2 == write_file(_check_parents(w1, file_path), file_path, r.body)
        w3 == logging_info(w2, "Saved binary data to", <<>>, file_path)
    IN IF w1.exc = "HTTPError" THEN Return(Caught(w1))
       ELSE IF w2.exc # "none" THEN w2
       ELSE IF suffix_of(file_path) = <<".", "p", "d", "f">>
       THEN parse_pdf(w3, file_path, parsed)
       ELSE w3

\* get_binary_file(url, relative_path), where r is the response to its
\* request and parsed what the extraction service does with the saved file
get_binary_file(w, url, relative_path, r, parsed) ==
    LET w0 == [w EXCEPT !.binary = <<[url |-> url,
                                      relative_path |-> relative_path,
                                      r |-> r]>>]
        w1 == _get(w0, url, r)
        file_path == join(_DATA_ROOT, relative_path)
        w2 == write_file(_check_parents(w1, file_path), file_path, r.body)
        w3 == logging_info(w2, "Saved binary data to", <<>>, file_path)
    IN IF w1.exc = "HTTPError" THEN Return(Caught(w1))
       ELSE IF w2.exc # "none" THEN w2
       ELSE IF suffix_of(file_path) = <<".", "p", "d", "f">>
       THEN parse_pdf(w3, file_path, parsed)
       ELSE w3

\* BeautifulSoup(html_string, 'html.parser') and soup.prettify()
BeautifulSoup(body) == body
prettify(soup) == [kind |-> "prettified html", of |-> soup]

\* get_soup that swallows the failure of the request and returns the soup
\* of whatever came back
get_soup_swallowing(w, url, filename, r) ==
    LET w1 == get_html_string(w, url, r)
        file_path == join(join(_DATA_ROOT, <<_SAVED_PAGES>>), <<filename>>)
    IN IF w1.exc = "HTTPError" THEN Caught(w1)
       ELSE IF w1.exc # "none" THEN w1
       ELSE write_file(_check_parents(w1, file_path), file_path,
                       [kind |-> "prettified html", of |-> r.body])

\* get_soup(url, filename); the soup it returns is BeautifulSoup(r.body)
get_soup(w, url, filename, r) ==
    LET w1 == get_html_string(w, url, r)
        soup == BeautifulSoup(r.body)
        html_string == prettify(soup)
        file_path == join(join(_DATA_ROOT, <<_SAVED_PAGES>>), <<filename>>)
    IN IF w1.exc # "none" THEN w1
       ELSE write_file(_check_parents(w1, file_path), file_path, html_string)

----------------------------------------------------------------------------
(* The parsed pages.  A soup holds what the scraping functions look up:    *)
(* the ids of its tags, its first table, the table after each header, and  *)
(* its tags with a string.  A tag has a string (or none), attributes and   *)
(* contents.                                                               *)

EmptySoup ==
    [kind |-> "html", ids |-> {}, table |-> <<>>, after |-> <<>>,
     tags |-> <<>>]

\* A tag <a href=h>s</a> whose only content is the text s
Anchor(s, h) ==
    [name |-> "a", string |-> <<s>>, attrs |-> [href |-> h],
     contents |-> <<[is_tag |-> FALSE, text |-> s]>>]

\* A table cell <td>s</td>
TextCell(s) == [string |-> <<s>>, a |-> <<>>]

\* A table cell <td><a ...>...</a></td>
LinkCell(a) == [string |-> a.string, a |-> <<a>>]

\* str.lower()
Upper ==
    <<"A", "B", "C", "D", "E", "F", "G", "H", "I", "J", "K", "L", "M",
      "N", "O", "P", "Q", "R", "S", "T", "U", "V", "W", "X", "Y", "Z">>
Lower ==
    <<"a", "b", "c", "d", "e", "f", "g", "h", "i", "j", "k", "l", "m",
      "n", "o", "p", "q", "r", "s", "t", "u", "v", "w", "x", "y", "z">>

lower_char(c) ==
    IF \E i \in 1..Len(Upper) : Upper[i] = c
    THEN Lower[CHOOSE i \in 1..Len(Upper) : Upper[i] = c]
    ELSE c

lower(s) == [i \in 1..Len(s) |-> lower_char(s[i])]

\* sub in s
contains(s, sub) ==
    \E i \in 0..(Len(s) - Len(sub)) : SubSeq(s, i + 1, i + Len(sub)) = sub

\* The first element of a sequence that satisfies a test, as a sequence of
\* at most one element (find returns None when there is none)
first_where(seq, Test(_)) ==
    LET hits == {i \in 1..Len(seq) : Test(seq[i])}
    IN IF hits = {} THEN <<>> ELSE <<seq[Min(hits)]>>

----------------------------------------------------------------------------
(* URL-specific scraping functions, scrape.py lines 189-370 *)

districts_url ==
    <<"https://www.rrc.state.tx.us/about-us/organization-activities/rrc-locations/counties-by-dist/">>
cleanup_url ==
    <<"https://www.rrc.state.tx.us/oil-gas/environmental-cleanup-programs/oil-gas-regulation-and-cleanup-fund/">>
well_distribution_url ==
    <<"https://www.rrc.state.tx.us/oil-gas/research-and-statistics/well-information/well-distribution-tables-well-counts-by-type-and-status/">>
abandoned_wells_url ==
    <<"https://www.rrc.state.tx.us/oil-gas/research-and-statistics/well-information/orphan-wells-12-months/">>

dot_pdf == <<".", "p", "d", "f">>

\* The data frame get_districts builds from the table, when every step of
\* its try block succeeds
district_codes(table) == [kind |-> "csv", frame |-> table.rows]

\* Whether the try block of get_districts runs without an exception
data_frame_extracts(soup) ==
    /\ soup.table # <<>>
    /\ soup.table[1].county_columns

\* get_districts()
get_districts(w, r) ==
    LET url == districts_url
        w1 == get_soup(w, url, <<"districts.html">>, r)
        soup == BeautifulSoup(r.body)
        file_path ==
            join(join(_DATA_ROOT, <<<<"district_codes">>>>),
                 <<<<"RRC_district_codes.csv">>>>)
        w2 == logging_info(w1, "Successfully extracted data frame of RRC district codes from",
                           url, <<>>)
        w3 == write_file(_check_parents(w2, file_path), file_path,
                         district_codes(soup.table[1]))
    IN IF w1.exc = "HTTPError" THEN Return(Caught(w1))
       ELSE IF w1.exc # "none" THEN w1
       ELSE IF ~data_frame_extracts(soup)
       THEN logging_error(w1, "Failed to extract data frame of RRC district codes from",
                          url, NoBody)
       ELSE IF w3.exc # "none" THEN w3
       ELSE logging_info(w3, "Saved table of RRC district codes to", <<>>,
                         file_path)

\* The cells the loops of _get_quarterly_reports visit, with their index in
\* the row: for row in rows[1:], for index, cell in enumerate(cells)
RECURSIVE quarterly_cells(_)
quarterly_cells(rows) ==
    IF rows = <<>> THEN <<>>
    ELSE [i \in 1..Len(Head(rows)) |-> [index |-> i - 1, cell |-> Head(rows)[i]]]
         \o quarterly_cells(Tail(rows))

\* year_tags, years and year_dirs of _get_quarterly_reports
year_dirs_of(row) ==
    LET year_tags == SelectSeq(row, LAMBDA tag : tag.string # <<>>)
        years == [i \in 1..Len(year_tags) |->
                     replace(strip(year_tags[i].string[1]), " ", <<"_">>)]
        quarterly_reports_dir == <<<<"cleanup_reports">>, <<"quarterly">>>>
    IN [i \in 1..Len(years) |-> join(quarterly_reports_dir, <<years[i]>>)]

\* get_cleanup_reports without its except clause
get_cleanup_reports_uncaught(w, r) ==
    LET w1 == get_soup(w, cleanup_url, <<"cleanup_reports.html">>, r)
        soup == r.body
    IN IF w1.exc # "none" THEN w1
       ELSE IF "OCP_quarterly" \notin soup.ids
       THEN Raise(w1, "AttributeError")
       ELSE IF "OCP_quarterly" \notin DOMAIN soup.after
       THEN Raise(w1, "AttributeError")
       ELSE IF soup.after["OCP_quarterly"].rows = <<>>
       THEN Raise(w1, "IndexError")
       ELSE LET rows == soup.after["OCP_quarterly"].rows
            IN [w1 EXCEPT
                   !.work = quarterly_cells(Tail(rows)),
                   !.ctx = [soup |-> soup, year_dirs |-> year_dirs_of(rows[1])]]

\* get_cleanup_reports() up to the loop of _get_quarterly_reports: the
\* world, with the loop's cells in work and its locals in ctx
get_cleanup_reports(w, r) ==
    LET url == cleanup_url
        w1 == get_soup(w, url, <<"cleanup_reports.html">>, r)
        soup == BeautifulSoup(r.body)
    IN IF w1.exc = "HTTPError" THEN Return(Caught(w1))
       ELSE IF w1.exc # "none" THEN w1
       ELSE IF "OCP_quarterly" \notin soup.ids
       THEN Raise(w1, "AttributeError")  \* None.parent
       ELSE IF "OCP_quarterly" \notin DOMAIN soup.after
       THEN Raise(w1, "AttributeError")  \* None.find_all
       ELSE IF soup.after["OCP_quarterly"].rows = <<>>
       THEN Raise(w1, "IndexError")      \* rows[0]
       ELSE LET rows == soup.after["OCP_quarterly"].rows
            IN [w1 EXCEPT
                   !.work = quarterly_cells(Tail(rows)),
                   !.ctx = [soup |-> soup, year_dirs |-> year_dirs_of(rows[1])]]

\* One pass of the inner loop of _get_quarterly_reports
quarterly_report(w, item, year_dirs, r, parsed) ==
    LET a_tag == item.cell.a[1]
        filename == replace(strip(a_tag.string[1]), " ", <<"_">>) \o dot_pdf
        relative_path == join(year_dirs[item.index + 1], <<filename>>)
        url == _BASE_URL \o a_tag.attrs.href
    IN IF item.cell.a = <<>> THEN w
       ELSE IF a_tag.string = <<>>
       THEN Raise(w, "AttributeError")   \* None.strip
       ELSE IF item.index + 1 > Len(year_dirs)
       THEN Raise(w, "IndexError")       \* year_dirs[index]
       ELSE IF "href" \notin DOMAIN a_tag.attrs
       THEN Raise(w, "KeyError")         \* a_tag['href']
       ELSE get_binary_file(w, url, relative_path, r, parsed)

\* get_cleanup_reports() after _get_quarterly_reports, up to the loop of
\* _get_annual_reports
_get_annual_reports(w, soup) ==
    IF "OCP_annual" \notin soup.ids
    THEN Raise(w, "AttributeError")      \* None.parent
    ELSE IF "OCP_annual" \notin DOMAIN soup.after
    THEN Raise(w, "AttributeError")      \* None.find_all
    ELSE [w EXCEPT !.work = soup.after["OCP_annual"].a_tags]

\* One pass of the loop of _get_annual_reports
annual_report(w, a_tag, r, parsed) ==
    LET annual_reports_dir == <<<<"cleanup_reports">>, <<"annual">>>>
        filename == replace(strip(a_tag.string[1]), " ", <<"_">>) \o dot_pdf
        relative_path == join(annual_reports_dir, <<filename>>)
        url == _BASE_URL \o a_tag.attrs.href
    IN IF a_tag.string = <<>>
       THEN Raise(w, "AttributeError")   \* None.strip
       ELSE IF "href" \notin DOMAIN a_tag.attrs
       THEN Raise(w, "KeyError")         \* a_tag['href']
       ELSE get_binary_file(w, url, relative_path, r, parsed)

\* get_filename(tag) of get_well_distribution_reports: the element of the
\* contents it picks (none: it returns None)
filename_element(tag) ==
    first_where(tag.contents, LAMBDA element : has_digits(element.text))

get_filename(tag) ==
    replace(replace(strip(filename_element(tag)[1].text), " ", <<"_">>),
            ",", <<>>) \o dot_pdf

\* get_well_distribution_reports() up to its loop
get_well_distribution_reports(w, r) ==
    LET url == well_distribution_url
        w1 == get_soup(w, url, <<"well_distributions.html">>, r)
        soup == BeautifulSoup(r.body)
    IN IF w1.exc = "HTTPError" THEN Return(Caught(w1))
       ELSE IF w1.exc # "none" THEN w1
       ELSE IF soup.table = <<>>
       THEN Raise(w1, "AttributeError")  \* None.find_all
       ELSE [w1 EXCEPT !.work = soup.table[1].a_tags]

\* One pass of the loop of get_well_distribution_reports
well_distribution_report(w, a_tag, r, parsed) ==
    LET distribution_reports_dir == <<<<"well_distributions">>>>
        filename == get_filename(a_tag)
        year == year_group(filename)
        relative_path ==
            join(join(distribution_reports_dir, <<year>>), <<filename>>)
        url == _BASE_URL \o a_tag.attrs.href
    IN IF filename_element(a_tag) = <<>> THEN w
       ELSE IF filename_element(a_tag)[1].is_tag
       THEN Raise(w, "TypeError")        \* Tag.strip is None
       ELSE IF year_matches(filename) = {}
       THEN Raise(w, "AttributeError")   \* None.group
       ELSE IF "href" \notin DOMAIN a_tag.attrs
       THEN Raise(w, "KeyError")         \* a_tag['href']
       ELSE get_binary_file(w, url, relative_path, r, parsed)

\* has_excel_string(tag) of get_abandoned_wells_report
has_excel_string(tag) ==
    /\ tag.string # <<>>
    /\ contains(lower(tag.string[1]),
                <<"e", "x", "c", "e", "l", " ", "v", "e", "r", "s", "i", "o", "n">>)

\* get_abandoned_wells_report() up to its call of get_binary_file: the
\* world, with the url and the path of the call in work
get_abandoned_wells_report(w, r) ==
    LET url == abandoned_wells_url
        w1 == get_soup(w, url, <<"abandoned_wells.html">>, r)
        soup == BeautifulSoup(r.body)
        found == first_where(soup.tags, has_excel_string)
        a_tag == found[1]
        filename == a_tag.attrs.title
        relative_path == join(<<<<"abandoned_wells">>>>, <<filename>>)
    IN IF w1.exc = "HTTPError" THEN Return(Caught(w1))
       ELSE IF w1.exc # "none" THEN w1
       ELSE IF found = <<>>
       THEN Raise(w1, "TypeError")       \* None['title']
       ELSE IF "title" \notin DOMAIN a_tag.attrs
       THEN Raise(w1, "KeyError")        \* a_tag['title']
       ELSE IF "href" \notin DOMAIN a_tag.attrs
       THEN Raise(w1, "KeyError")        \* a_tag['href']
       ELSE [w1 EXCEPT !.work = <<[url |-> _BASE_URL \o a_tag.attrs.href,
                                   relative_path |-> relative_path]>>]

\* The call of get_binary_file that ends get_abandoned_wells_report()
abandoned_wells_report(w, call, r, parsed) ==
    get_binary_file(w, call.url, call.relative_path, r, parsed)

\* _initialize_logging(): FileHandler(mode = 'w') opens the log file empty
_initialize_logging(w) ==
    write_file(_check_parents(w, log_file), log_file,
               [kind |-> "log", records |-> <<>>])

----------------------------------------------------------------------------
(* What the site serves and what the extraction service returns *)

FY_2020 == <<"F", "Y", " ", "2", "0", "2", "0">>
Q1 == <<" ", "Q", "1", " ">>
Jan_2019 == <<"J", "a", "n", " ", "2", "0", "1", "9">>
Jan_comma_2019 == <<"J", "a", "n", ",", " ", "2", "0", "1", "9">>
Jan_19 == <<"J", "a", "n", " ", "1", "9">>
Excel_Version == <<"E", "x", "c", "e", "l", " ", "V", "e", "r", "s", "i", "o", "n">>

quarterly_table ==
    [rows |-> << <<TextCell(FY_2020)>>,
                 <<LinkCell(Anchor(FY_2020, <<"/x/y.pdf">>))>> >>,
     a_tags |-> <<Anchor(FY_2020, <<"/x/y.pdf">>)>>]

annual_table ==
    [rows |-> <<>>, a_tags |-> <<Anchor(Q1, <<"/a/1.pdf">>)>>]

districts_page ==
    [EmptySoup EXCEPT
        !.table = <<[county_columns |-> TRUE, rows |-> "counties",
                     a_tags |-> <<>>]>>]

districts_page_changed ==
    [EmptySoup EXCEPT
        !.table = <<[county_columns |-> FALSE, rows |-> "other",
                     a_tags |-> <<>>]>>]

cleanup_page ==
    [EmptySoup EXCEPT
        !.ids = {"OCP_quarterly", "OCP_annual"},
        !.after = [OCP_quarterly |-> quarterly_table,
                   OCP_annual |-> annual_table]]

cleanup_page_no_annual ==
    [EmptySoup EXCEPT
        !.ids = {"OCP_quarterly"},
        !.after = [OCP_quarterly |-> quarterly_table]]

\* An <a> tag without text, as the table of well distributions has
HiddenAnchor(h) ==
    [name |-> "a", string |-> <<>>, attrs |-> [href |-> h],
     contents |-> <<>>]

well_distribution_page ==
    [EmptySoup EXCEPT
        !.table = <<[county_columns |-> FALSE, rows |-> "months",
                     a_tags |-> <<Anchor(Jan_2019, <<"/w/1.pdf">>),
                                  HiddenAnchor(<<"/w/0.pdf">>),
                                  Anchor(Jan_comma_2019, <<"/w/2.pdf">>)>>]>>]

well_distribution_page_short_year ==
    [EmptySoup EXCEPT
        !.table = <<[county_columns |-> FALSE, rows |-> "months",
                     a_tags |-> <<Anchor(Jan_19, <<"/w/3.pdf">>)>>]>>]

abandoned_wells_page ==
    [EmptySoup EXCEPT
        !.tags = <<[name |-> "a", string |-> <<Excel_Version>>,
                    attrs |-> [href |-> <<"/o.xlsx">>,
                               title |-> <<"o", ".", "x", "l", "s", "x">>],
                    contents |-> <<[is_tag |-> FALSE,
                                    text |-> Excel_Version]>>]>>]

DistrictsPages == {districts_page, districts_page_changed}
CleanupPages == {cleanup_page, cleanup_page_no_annual}
WellDistributionPages ==
    {well_distribution_page, well_distribution_page_short_year}
AbandonedWellsPages == {abandoned_wells_page}

\* The status codes the server answers with
Statuses == {200, 304, 404, 500}

\* The page that comes with an error status: html with nothing the
\* scraping functions look for
ErrorBody(status) ==
    [kind |-> "error page", ids |-> {}, table |-> <<>>, after |-> <<>>,
     tags |-> <<>>, status |-> status]
Bytes(data) == [kind |-> "bytes", data |-> data]
Payloads == {"document with text", "document without text"}

\* The responses to the request for a page: one of the pages, nothing for
\* a 304, the error page otherwise
PageResponses(pages) ==
    {[status |-> 200, body |-> p] : p \in pages}
    \cup {[status |-> 304, body |-> EmptySoup]}
    \cup {[status |-> s, body |-> ErrorBody(s)] :
             s \in {t \in Statuses : raises_for_status([status |-> t])}}

\* The responses to the request for a file
FileResponses ==
    {[status |-> 200, body |-> Bytes(d)] : d \in Payloads}
    \cup {[status |-> 304, body |-> Bytes("")]}
    \cup {[status |-> s, body |-> ErrorBody(s)] :
             s \in {t \in Statuses : raises_for_status([status |-> t])}}

\* What parser.from_file does with a file of the given bytes: the service
\* fails, or returns the text of the document: None (<<>>) for a document
\* without text, the empty string for an empty file
from_file(body, fails) ==
    [raises |-> fails,
     metadata |-> [of |-> body],
     content |-> IF body = Bytes("document with text")
                 THEN << <<"Hello">> >>
                 ELSE IF body = Bytes("") THEN << <<>> >>
                 ELSE <<>>]

\* What the site normally serves
NormalBodies ==
    {districts_page, cleanup_page, well_distribution_page,
     abandoned_wells_page, Bytes("document with text")}

\* 1 for a response that is not the normal one
deviation(r) == IF r.status = 200 /\ r.body \in NormalBodies THEN 0 ELSE 1

----------------------------------------------------------------------------
(* main(), scrape.py lines 402-409: one action for each call it makes and  *)
(* for each pass of a loop                                                 *)

NoCtx == [soup |-> EmptySoup, year_dirs |-> <<>>]

NoCall == [fn |-> "none", exc |-> "none", returned |-> FALSE,
           binary |-> <<>>, pdf |-> <<>>, calls |-> <<>>,
           fs |-> <<>>, dirs |-> {}, pc |-> "none", todo |-> 0]

\* The step of main() that calls fn and ends in the world w: what is on
\* disk, the history, and where main() goes on. An exception that leaves
\* the call leaves main() too. rs are the responses and fails the answer
\* of the extraction service offered to the step: those it has used count
\* as deviations.
Step(fn, w, next_pc, rs, fails) ==
    LET calls == SubSeq(w.gets, Len(gets) + 1, Len(w.gets))
        used == {i \in 1..Len(rs) : i <= Len(calls)}
        dev == Cardinality({i \in used : deviation(rs[i]) = 1})
               + (IF w.pdf # <<>> /\ fails THEN 1 ELSE 0)
    IN /\ deviations + dev <= MaxDeviations
       /\ deviations' = deviations + dev
       /\ fs' = w.fs
       /\ dirs' = w.dirs
       /\ gets' = w.gets
       /\ orphan' = w.orphan
       /\ pc' = IF w.exc # "none" THEN "crashed" ELSE next_pc
       /\ work' = IF w.exc # "none" THEN <<>> ELSE w.work
       /\ ctx' = IF w.exc # "none" THEN NoCtx ELSE w.ctx
       /\ last' = [fn |-> fn, exc |-> w.exc, returned |-> w.returned,
                   binary |-> w.binary, pdf |-> w.pdf, calls |-> calls,
                   fs |-> fs, dirs |-> dirs, pc |-> pc, todo |-> Len(work)]
       /\ run' = run

\* main() starts: _initialize_logging()
initialize_logging ==
    /\ pc = "main"
    /\ Step("_initialize_logging", _initialize_logging(World),
            "get_districts", <<>>, FALSE)
    /\ started' = started

call_get_districts ==
    /\ pc = "get_districts"
    /\ \E r \in PageResponses(DistrictsPages) :
          Step("get_districts", get_districts(World, r),
               "get_cleanup_reports", <<r>>, FALSE)
    /\ started' = Append(started, "get_districts")

call_get_cleanup_reports ==
    /\ pc = "get_cleanup_reports"
    /\ \E r \in PageResponses(CleanupPages) :
          LET w == get_cleanup_reports(World, r)
          IN Step("get_cleanup_reports", w,
                  IF w.returned THEN "get_well_distribution_reports"
                  ELSE "quarterly",
                  <<r>>, FALSE)
    /\ started' = Append(started, "get_cleanup_reports")

quarterly_pass ==
    /\ pc = "quarterly"
    /\ work # <<>>
    /\ \E r \in FileResponses, fails \in BOOLEAN :
          Step("quarterly_report",
               [quarterly_report(World, Head(work), ctx.year_dirs, r,
                                 from_file(r.body, fails))
                   EXCEPT !.work = Tail(work)],
               "quarterly", <<r>>, fails)
    /\ started' = started

call_get_annual_reports ==
    /\ pc = "quarterly"
    /\ work = <<>>
    /\ Step("_get_annual_reports", _get_annual_reports(World, ctx.soup),
            "annual", <<>>, FALSE)
    /\ started' = started

annual_pass ==
    /\ pc = "annual"
    /\ work # <<>>
    /\ \E r \in FileResponses, fails \in BOOLEAN :
          Step("annual_report",
               [annual_report(World, Head(work), r, from_file(r.body, fails))
                   EXCEPT !.work = Tail(work)],
               "annual", <<r>>, fails)
    /\ started' = started

\* get_cleanup_reports() returns after the loop of _get_annual_reports
cleanup_reports_return ==
    /\ pc = "annual"
    /\ work = <<>>
    /\ Step("get_cleanup_reports returns", [World EXCEPT !.ctx = NoCtx],
            "get_well_distribution_reports", <<>>, FALSE)
    /\ started' = started

call_get_well_distribution_reports ==
    /\ pc = "get_well_distribution_reports"
    /\ \E r \in PageResponses(WellDistributionPages) :
          LET w == get_well_distribution_reports(World, r)
          IN Step("get_well_distribution_reports", w,
                  IF w.returned THEN "get_abandoned_wells_report"
                  ELSE "well_distribution",
                  <<r>>, FALSE)
    /\ started' = Append(started, "get_well_distribution_reports")

well_distribution_pass ==
    /\ pc = "well_distribution"
    /\ work # <<>>
    /\ \E r \in FileResponses, fails \in BOOLEAN :
          Step("well_distribution_report",
               [well_distribution_report(World, Head(work), r,
                                         from_file(r.body, fails))
                   EXCEPT !.work = Tail(work)],
               "well_distribution", <<r>>, fails)
    /\ started' = started

\* get_well_distribution_reports() returns after its loop
well_distribution_reports_return ==
    /\ pc = "well_distribution"
    /\ work = <<>>
    /\ Step("get_well_distribution_reports returns", World,
            "get_abandoned_wells_report", <<>>, FALSE)
    /\ started' = started

call_get_abandoned_wells_report ==
    /\ pc = "get_abandoned_wells_report"
    /\ \E r \in PageResponses(AbandonedWellsPages) :
          LET w == get_abandoned_wells_report(World, r)
          IN Step("get_abandoned_wells_report", w,
                  IF w.returned THEN "done" ELSE "abandoned_wells",
                  <<r>>, FALSE)
    /\ started' = Append(started, "get_abandoned_wells_report")

abandoned_wells_pass ==
    /\ pc = "abandoned_wells"
    /\ \E r \in FileResponses, fails \in BOOLEAN :
          Step("abandoned_wells_report",
               [abandoned_wells_report(World, Head(work), r,
                                       from_file(r.body, fails))
                   EXCEPT !.work = Tail(work)],
               "done", <<r>>, fails)
    /\ started' = started

\* The script is started again in the same working directory
run_again ==
    /\ pc \in {"done", "crashed"}
    /\ run < MaxRuns
    /\ run' = run + 1
    /\ pc' = "main"
    /\ work' = <<>>
    /\ ctx' = NoCtx
    /\ gets' = <<>>
    /\ started' = <<>>
    /\ last' = NoCall
    /\ UNCHANGED <<fs, dirs, orphan, deviations>>

Init ==
    /\ pc = "main"
    /\ fs = <<>>
    /\ dirs = {<<>>}
    /\ work = <<>>
    /\ ctx = NoCtx
    /\ run = 1
    /\ deviations = 0
    /\ gets = <<>>
    /\ started = <<>>
    /\ orphan = {}
    /\ last = NoCall

Next ==
    \/ initialize_logging
    \/ call_get_districts
    \/ call_get_cleanup_reports
    \/ quarterly_pass
    \/ call_get_annual_reports
    \/ annual_pass
    \/ cleanup_reports_return
    \/ call_get_well_distribution_reports
    \/ well_distribution_pass
    \/ well_distribution_reports_return
    \/ call_get_abandoned_wells_report
    \/ abandoned_wells_pass
    \/ run_again

Spec == Init /\ [][Next]_vars

----------------------------------------------------------------------------
(* The properties checked *)

\* The _get call that the get_binary_file of the last step made
Fetch == last.calls[Len(last.calls)]

\* The last step called get_binary_file
Retrieved == last.binary # <<>>

\* The last step called parse_pdf
Extracted == last.pdf # <<>>

\* The file the last step's get_binary_file saves to, and the two files
\* parse_pdf writes beside a pdf file
SavedPath == join(_DATA_ROOT, last.binary[1].relative_path)
MetadataPath(file_path) ==
    join(parent_of(file_path), <<stem_of(file_path) \o <<"_metadata.txt">>>>)
ContentPath(file_path) ==
    join(parent_of(file_path), <<stem_of(file_path) \o <<"_parsed.txt">>>>)

\* The same file, with the same content or absent, on two disks
SameFile(path, disk1, disk2) ==
    /\ (path \in DOMAIN disk1) = (path \in DOMAIN disk2)
    /\ path \in DOMAIN disk1 => disk1[path] = disk2[path]

RoutineOrder ==
    <<"get_districts", "get_cleanup_reports", "get_well_distribution_reports",
      "get_abandoned_wells_report">>

\* Where main() is after each routine has returned
AfterRoutine ==
    [get_districts |-> "get_cleanup_reports",
     get_cleanup_reports |-> "get_well_distribution_reports",
     get_well_distribution_reports |-> "get_abandoned_wells_report",
     get_abandoned_wells_report |-> "done"]

\* The last step called a report routine and the request for its page
\* failed
PageFetchFailed ==
    /\ last.fn \in DOMAIN AfterRoutine
    /\ last.calls # <<>>
    /\ last.calls[1].exc = "HTTPError"

NavigationErrors == {"AttributeError", "IndexError", "KeyError", "TypeError"}

\* The log entries that _get writes
FetchEntries ==
    SelectSeq(log_of(fs),
              LAMBDA e : e.event \in {"Failed to download",
                                      "Successfully downloaded data for"})

\* C1: every _get call returns normally exactly when the status of the
\* response is 2xx and raises otherwise, and in both cases makes exactly
\* one pause of _DELAY.
C1_FetchSucceedsIff2xxWithOnePause ==
    \A i \in 1..Len(gets) :
        /\ (gets[i].exc = "none") <=>
               (200 <= gets[i].status /\ gets[i].status < 300)
        /\ gets[i].exc \in {"none", "HTTPError"}
        /\ gets[i].pauses = <<_DELAY>>

C3_ExtractionFailureIsCaught ==
    (Extracted /\ last.pdf[1].parsed.raises) =>
        /\ last.exc = "none"
        /\ pc # "crashed"
        /\ SameFile(MetadataPath(last.pdf[1].file_path), fs, last.fs)
        /\ SameFile(ContentPath(last.pdf[1].file_path), fs, last.fs)

C5_NavigationFailureIsAbsorbed ==
    ~(pc = "crashed" /\ last.exc \in NavigationErrors)

C7_RetrieveOverwrites ==
    (Retrieved /\ Fetch.exc = "none" /\ SavedPath \in DOMAIN last.fs) =>
        /\ SavedPath \in DOMAIN fs
        /\ fs[SavedPath] = last.binary[1].r.body
        /\ (DOMAIN fs) \ (DOMAIN last.fs)
               \subseteq {MetadataPath(SavedPath), ContentPath(SavedPath)}

\* The second run has replaced the file of the first by another payload
C7_Witness ==
    /\ run = 2
    /\ Retrieved
    /\ Fetch.exc = "none"
    /\ SavedPath \in DOMAIN last.fs
    /\ last.fs[SavedPath] = [kind |-> "bytes", data |-> "document with text"]
    /\ fs[SavedPath] = [kind |-> "bytes", data |-> "document without text"]

C9_ParentsExistBeforeWrite ==
    /\ orphan = {}
    /\ \A p \in DOMAIN fs : ancestors(parent_of(p)) \subseteq dirs

\* A pdf file, its two text files and the csv file are on disk
C9_Witness ==
    /\ \E p \in DOMAIN fs :
          /\ suffix_of(p) = <<".", "p", "d", "f">>
          /\ MetadataPath(p) \in DOMAIN fs
          /\ ContentPath(p) \in DOMAIN fs
    /\ \E p \in DOMAIN fs : fs[p].kind = "csv"
    /\ \E p \in DOMAIN fs : fs[p].kind = "prettified html"

====
